---- MODULE Spec2Model ----
(***************************************************************************)
(* Model of app/main.py: convert_video, which turns one 360 degree video   *)
(* into an OpenSfM dataset directory (images/, camera_models_overrides.json*)
(* and config.yaml).  One run of convert_video is a sequence of steps; the *)
(* filesystem, the module-level CAMERA_MODEL_JSON template and the calls   *)
(* made to ffmpeg are the state the steps act on.  An argument of a run is *)
(* drawn at the step that first reads it (the video file at the probe, the *)
(* override flag at the camera model, the stride at the extraction); a run *)
(* that repeats the run before it reads that run's arguments again.        *)
(*                                                                         *)
(* Numbers.  A fraction x is the integer x * FracDen, so 1.0 is FracDen.   *)
(* Probe times (start_time, duration) are whole seconds.  The products     *)
(* start * start_time and end * duration are therefore in units of         *)
(* 1/FracDen second; all arithmetic on them is exact (floating-point       *)
(* rounding is not modelled, the rounding of the hh:mm:ss.mmm format is).  *)
(***************************************************************************)
EXTENDS Integers, FiniteSets, Sequences, TLC

VARIABLES
    pc,                 \* position of the current run inside convert_video, "idle" between runs
    args,               \* the arguments of the current (or last) run
    start, end, t,      \* the locals start, end, t of convert_video
    width, height,      \* the locals width, height
    probe,              \* the local probe (result of ffmpeg.probe)
    CAMERA_MODEL_JSON,  \* the nested dict CAMERA_MODEL_JSON["all"] of the module
    dir,                \* the dataset directory on disk
    outcome,            \* how the current (or last) run ended
    num_frames,         \* the frame count reported by the last completed run
    probed,             \* ffmpeg.probe was invoked by this run
    extractCall,        \* the ffmpeg extraction this run started, if any
    again,              \* this run repeats the arguments of the run before it
    prev                \* the result of the run before it, when this run repeats it

vars == <<pc, args, start, end, t, width, height, probe, CAMERA_MODEL_JSON,
          dir, outcome, num_frames, probed, extractCall, again, prev>>

-----------------------------------------------------------------------------
(* Units and inputs *)

FracDen == 10

One == FracDen

Min2(a, b) == IF a <= b THEN a ELSE b

Max2(a, b) == IF a >= b THEN a ELSE b

\* ceil(a / b) for a >= 0, b > 0
CeilDiv(a, b) == (a + b - 1) \div b

StartInputs == {-(FracDen \div 2), 0, FracDen \div 5, FracDen \div 2, FracDen + FracDen \div 2}

EndInputs == {-(FracDen \div 2), 0, FracDen \div 2, (4 * FracDen) \div 5, FracDen,
              FracDen + FracDen \div 2}

Strides == {1, 3}

\* A value of the probe dictionary: a number, a non-numeric string, or an absent key.
Num(n) == [k |-> "num", v |-> n]

NotNumeric == [k |-> "str", v |-> 0]

Missing == [k |-> "missing", v |-> 0]

Video(r, s, w, h, st, d, dec) ==
    [readable |-> r, streams |-> s, width |-> w, height |-> h,
     start_time |-> st, duration |-> d, decodable |-> dec, fps |-> 1]

GoodVideos ==
    { Video(TRUE, 1, Num(3840), Num(1920), Num(0), Num(10), TRUE),
      Video(TRUE, 1, Num(1280), Num(640), Num(1), Num(10), TRUE),
      Video(TRUE, 1, Num(3840), Num(1920), Num(-1), Num(10), TRUE),
      Video(TRUE, 1, Num(1280), Num(640), Num(0), Num(0), TRUE),
      Video(TRUE, 1, Num(1920), Num(960), Num(2), Num(3700), TRUE) }

BadVideos ==
    { Video(FALSE, 0, Missing, Missing, Missing, Missing, FALSE),
      Video(TRUE, 0, Missing, Missing, Missing, Missing, FALSE),
      Video(TRUE, 1, Missing, Num(1920), Num(0), Num(10), TRUE),
      Video(TRUE, 1, Num(3840), Missing, Num(0), Num(10), TRUE),
      Video(TRUE, 1, Num(3840), Num(1920), Missing, Num(10), TRUE),
      Video(TRUE, 1, Num(3840), Num(1920), Num(0), NotNumeric, TRUE),
      Video(TRUE, 1, Num(3840), Num(1920), Num(0), Num(10), FALSE) }

Videos == GoodVideos \cup BadVideos

-----------------------------------------------------------------------------
(* Module-level values *)

DefaultWidth == 1920

DefaultHeight == 960

CameraTemplate == [width |-> Num(DefaultWidth), height |-> Num(DefaultHeight)]

CONFIG_YAML ==
    [present |-> TRUE, feature_process_size |-> 1024, feature_min_frames |-> 16000,
     processes |-> 8]

-----------------------------------------------------------------------------
(* Files *)

NoConfig ==
    [present |-> FALSE, feature_process_size |-> 0, feature_min_frames |-> 0, processes |-> 0]

StaleConfig ==
    [present |-> TRUE, feature_process_size |-> 2048, feature_min_frames |-> 8000,
     processes |-> 1]

NoCamera == [present |-> FALSE, width |-> Missing, height |-> Missing]

CameraFile(all) == [present |-> TRUE, width |-> all.width, height |-> all.height]

NoDir ==
    [exists |-> FALSE, images |-> FALSE, frames |-> 0, otherPng |-> 0, extra |-> FALSE,
     camera |-> NoCamera, config |-> NoConfig]

EmptyDir == [NoDir EXCEPT !.exists = TRUE]

\* A directory left behind by something else: frames, another png, another file.
StaleDir ==
    [exists |-> TRUE, images |-> TRUE, frames |-> 2, otherPng |-> 1, extra |-> TRUE,
     camera |-> CameraFile([width |-> Num(640), height |-> Num(320)]),
     config |-> StaleConfig]

NoCall ==
    [started |-> FALSE, ss |-> 0, t |-> 0, stride |-> 0, width |-> Missing,
     height |-> Missing, written |-> 0]

NoPrev == [valid |-> FALSE, num_frames |-> 0, camera |-> NoCamera, config |-> NoConfig]

NoArgs ==
    [start |-> 0, end |-> One, video_stride |-> 1, override_video_dimensions |-> TRUE,
     video |-> CHOOSE v \in GoodVideos : TRUE]

-----------------------------------------------------------------------------
(* Pure computations of convert_video *)

\* start = min(0, max(start, 1))
ClampStart(x) == Min2(0, Max2(x, One))

\* end = min(1, max(end, 0))
ClampEnd(x) == Min2(One, Max2(x, 0))

\* float(v): the number, or ValueError
Parses(f) == f.k = "num"

\* start * float(probe["streams"][0]["start_time"])
AbsStart(st, f) == st * f.v

\* The end computed as end + duration (the sum in place of the product).
AbsEndSum(en, f) == en + f.v * FracDen

\* end * float(probe["streams"][0]["duration"])
AbsEnd(en, f) == en * f.v

\* t = end - start
TrimDuration(st, en) == en - st

\* round(a / b) to the nearest integer, ties to even, as the %.3f format rounds
RoundHalfEven(a, b) ==
    LET q == a \div b
        r == a % b
    IN  IF 2 * r < b THEN q
        ELSE IF 2 * r > b THEN q + 1
        ELSE IF q % 2 = 0 THEN q ELSE q + 1

\* seconds_to_hms(seconds): the fields of "hh:mm:ss.mmm", seconds in 1/FracDen s
seconds_to_hms(n) ==
    [hours   |-> n \div (3600 * FracDen),
     minutes |-> (n % (3600 * FracDen)) \div (60 * FracDen),
     millis  |-> RoundHalfEven(1000 * (n % (60 * FracDen)), FracDen)]

-----------------------------------------------------------------------------
(* The transcoding service, as convert_video uses it *)

\* The time, in milliseconds, ffmpeg reads from an hh:mm:ss.mmm argument:
\* a leading minus sign negates the whole duration.
HmsMillis(h) ==
    IF h.hours < 0
    THEN -((((-h.hours) * 3600 + h.minutes * 60) * 1000) + h.millis)
    ELSE ((h.hours * 3600 + h.minutes * 60) * 1000) + h.millis

\* Frames the select=not(mod(n,stride)) filter keeps of the frames between -ss and
\* -ss + -t: frame 0, stride, 2*stride, ... of the window.
FramesSelected(v, ss, dur, stride) ==
    LET from == Max2(ss, 0)
        to   == Min2(ss + dur, v.duration.v * 1000)
        span == Max2(to - from, 0)
        m    == CeilDiv(span * v.fps, 1000)
    IN  CeilDiv(m, stride)

\* shutil.rmtree(dataset_dir) when it exists, then mkdir dataset_dir and images
ResetTree(d) == [EmptyDir EXCEPT !.images = TRUE]

-----------------------------------------------------------------------------
(* State machine *)

Init ==
    /\ pc = "idle"
    /\ args = NoArgs
    /\ start = 0 /\ end = 0 /\ t = 0
    /\ width = Missing /\ height = Missing
    /\ probe = NoArgs.video
    /\ CAMERA_MODEL_JSON = CameraTemplate
    /\ dir \in {NoDir, StaleDir}
    /\ outcome = "none"
    /\ num_frames = 0
    /\ probed = FALSE
    /\ extractCall = NoCall
    /\ again = FALSE
    /\ prev = NoPrev

\* The values an argument of this run can take where convert_video reads it.
Given(field, S) == IF again THEN {args[field]} ELSE S

\* The run ends with an exception: nothing else of the state changes.
Raise(e) ==
    /\ pc' = "idle"
    /\ outcome' = e

\* The call with the directory reset of lines 39-47 done before the assertion.
StartResetFirst ==
    /\ pc = "idle"
    /\ \E r \in (IF outcome = "ok" THEN BOOLEAN ELSE {FALSE}) :
        /\ again' = r
        /\ prev' = IF r THEN [valid |-> TRUE, num_frames |-> num_frames,
                              camera |-> dir.camera, config |-> dir.config]
                   ELSE NoPrev
        /\ \E s \in (IF r THEN {args.start} ELSE StartInputs),
              e \in (IF r THEN {args.end} ELSE EndInputs) :
            LET cs == ClampStart(s)
                ce == ClampEnd(e)
            IN  /\ args' = IF r THEN args ELSE [NoArgs EXCEPT !.start = s, !.end = e]
                /\ start' = cs
                /\ end' = ce
                /\ IF cs < ce
                   THEN pc' = "probe" /\ outcome' = "running"
                   ELSE Raise("InvalidWindow")
    /\ dir' = ResetTree(dir)
    /\ t' = 0
    /\ width' = Missing /\ height' = Missing
    /\ probe' = NoArgs.video
    /\ probed' = FALSE
    /\ extractCall' = NoCall
    /\ num_frames' = 0
    /\ UNCHANGED CAMERA_MODEL_JSON

\* Lines 26-38: the call, the clamping of start and end, and the assertion.
Start ==
    /\ pc = "idle"
    /\ \E r \in (IF outcome = "ok" THEN BOOLEAN ELSE {FALSE}) :
        /\ again' = r
        /\ prev' = IF r THEN [valid |-> TRUE, num_frames |-> num_frames,
                              camera |-> dir.camera, config |-> dir.config]
                   ELSE NoPrev
        /\ \E s \in (IF r THEN {args.start} ELSE StartInputs),
              e \in (IF r THEN {args.end} ELSE EndInputs) :
            LET cs == ClampStart(s)
                ce == ClampEnd(e)
            IN  /\ args' = IF r THEN args ELSE [NoArgs EXCEPT !.start = s, !.end = e]
                /\ start' = cs
                /\ end' = ce
                /\ IF cs < ce
                   THEN pc' = "reset" /\ outcome' = "running"
                   ELSE Raise("InvalidWindow")
    /\ t' = 0
    /\ width' = Missing /\ height' = Missing
    /\ probe' = NoArgs.video
    /\ probed' = FALSE
    /\ extractCall' = NoCall
    /\ num_frames' = 0
    /\ UNCHANGED <<CAMERA_MODEL_JSON, dir>>

\* Lines 39-47: remove the dataset directory, create it and images/.
ResetDir ==
    /\ pc = "reset"
    /\ dir' = ResetTree(dir)
    /\ pc' = "probe"
    /\ UNCHANGED <<args, start, end, t, width, height, probe, CAMERA_MODEL_JSON, outcome,
                   num_frames, probed, extractCall, again, prev>>

\* Line 49: probe = ffmpeg.probe(input_path); ffmpeg.Error when the file cannot be read.
Probe ==
    /\ pc = "probe"
    /\ probed' = TRUE
    /\ \E v \in Given("video", Videos) :
        /\ args' = [args EXCEPT !.video = v]
        /\ IF v.readable
           THEN /\ probe' = v
                /\ pc' = "camera"
                /\ UNCHANGED outcome
           ELSE /\ Raise("ProbeError")
                /\ UNCHANGED probe
    /\ UNCHANGED <<start, end, t, width, height, CAMERA_MODEL_JSON, dir,
                   num_frames, extractCall, again, prev>>

\* Lines 50-61: choose width and height and write camera_models_overrides.json.
\* CAMERA_MODEL_JSON.copy() is a shallow copy: camera_model_overrides["all"] is
\* the dict CAMERA_MODEL_JSON["all"] itself, so lines 55-56 assign into the template.
CameraModel ==
    /\ pc = "camera"
    /\ \E o \in Given("override_video_dimensions", BOOLEAN) :
        /\ args' = [args EXCEPT !.override_video_dimensions = o]
        /\ IF o
           THEN IF probe.streams = 0
                THEN /\ Raise("IndexError")
                     /\ UNCHANGED <<width, height, CAMERA_MODEL_JSON, dir>>
                ELSE IF probe.width.k = "missing"
                THEN /\ Raise("KeyError")
                     /\ UNCHANGED <<width, height, CAMERA_MODEL_JSON, dir>>
                ELSE IF probe.height.k = "missing"
                THEN /\ Raise("KeyError")
                     /\ width' = probe.width
                     /\ UNCHANGED <<height, CAMERA_MODEL_JSON, dir>>
                ELSE /\ width' = probe.width
                     /\ height' = probe.height
                     /\ CAMERA_MODEL_JSON' = [width |-> probe.width, height |-> probe.height]
                     /\ dir' = [dir EXCEPT !.camera = CameraFile(CAMERA_MODEL_JSON')]
                     /\ pc' = "window"
                     /\ UNCHANGED outcome
           ELSE /\ width' = Num(DefaultWidth)
                /\ height' = Num(DefaultHeight)
                /\ dir' = [dir EXCEPT !.camera = CameraFile(CAMERA_MODEL_JSON)]
                /\ pc' = "window"
                /\ UNCHANGED <<outcome, CAMERA_MODEL_JSON>>
    /\ UNCHANGED <<start, end, t, probe, num_frames, probed, extractCall, again, prev>>

\* Lines 62-68: absolute start, end and trim duration; every exception of the
\* three statements is re-raised as RuntimeError("Error parsing video info ...").
TimeWindow ==
    /\ pc = "window"
    /\ IF probe.streams = 0
       THEN /\ Raise("ProbeParseError")
            /\ UNCHANGED <<start, end, t>>
       ELSE IF ~Parses(probe.start_time)
       THEN /\ Raise("ProbeParseError")
            /\ UNCHANGED <<start, end, t>>
       ELSE IF ~Parses(probe.duration)
       THEN /\ Raise("ProbeParseError")
            /\ start' = AbsStart(start, probe.start_time)
            /\ UNCHANGED <<end, t>>
       ELSE /\ start' = AbsStart(start, probe.start_time)
            /\ end' = AbsEnd(end, probe.duration)
            /\ t' = TrimDuration(start', end')
            /\ pc' = "config"
            /\ UNCHANGED outcome
    /\ UNCHANGED <<args, width, height, probe, CAMERA_MODEL_JSON, dir, num_frames,
                   probed, extractCall, again, prev>>

\* config.yaml left unwritten on the way to the extraction.
WriteConfigSkipped ==
    /\ pc = "config"
    /\ pc' = "extract"
    /\ UNCHANGED <<args, start, end, t, width, height, probe, CAMERA_MODEL_JSON, dir,
                   outcome, num_frames, probed, extractCall, again, prev>>

\* Lines 70-71: write config.yaml.
WriteConfig ==
    /\ pc = "config"
    /\ dir' = [dir EXCEPT !.config = CONFIG_YAML]
    /\ pc' = "extract"
    /\ UNCHANGED <<args, start, end, t, width, height, probe, CAMERA_MODEL_JSON, outcome,
                   num_frames, probed, extractCall, again, prev>>

\* Lines 72-95: format -ss and -t, run ffmpeg and wait for it.  frame_0001.png,
\* frame_0002.png, ... overwrite files of the same name; ffmpeg.Error when it fails.
Extract ==
    /\ pc = "extract"
    /\ \E stride \in Given("video_stride", Strides) :
        LET ss   == HmsMillis(seconds_to_hms(start))
            dur  == HmsMillis(seconds_to_hms(t))
            n    == IF probe.decodable THEN FramesSelected(probe, ss, dur, stride) ELSE 0
        IN  /\ args' = [args EXCEPT !.video_stride = stride]
            /\ extractCall' = [started |-> TRUE, ss |-> ss, t |-> dur, stride |-> stride,
                               width |-> width, height |-> height, written |-> n]
            /\ dir' = [dir EXCEPT !.frames = Max2(@, n)]
            /\ IF probe.decodable
               THEN pc' = "count" /\ UNCHANGED outcome
               ELSE Raise("ExtractionError")
    /\ UNCHANGED <<start, end, t, width, height, probe, CAMERA_MODEL_JSON,
                   num_frames, probed, again, prev>>

\* Lines 96-97: count the png files of images/ and report.
Count ==
    /\ pc = "count"
    /\ num_frames' = dir.frames + dir.otherPng
    /\ pc' = "idle"
    /\ outcome' = "ok"
    /\ UNCHANGED <<args, start, end, t, width, height, probe, CAMERA_MODEL_JSON, dir,
                   probed, extractCall, again, prev>>

\* Lines 11-17 and 100-101: a new process loads the module again; the disk stays.
NewProcess ==
    /\ pc = "idle"
    /\ CAMERA_MODEL_JSON # CameraTemplate
    /\ CAMERA_MODEL_JSON' = CameraTemplate
    /\ UNCHANGED <<pc, args, start, end, t, width, height, probe, dir, outcome,
                   num_frames, probed, extractCall, again, prev>>

Next ==
    \/ Start
    \/ ResetDir
    \/ Probe
    \/ CameraModel
    \/ TimeWindow
    \/ WriteConfig
    \/ Extract
    \/ Count
    \/ NewProcess

Spec == Init /\ [][Next]_vars

-----------------------------------------------------------------------------
(* Properties *)

\* The clamp into [0,1]: below 0 becomes 0, above 1 becomes 1.
Clamp01(x) == Max2(0, Min2(x, One))

\* The locals start and end still hold the clamped fractions.
FractionsClamped == pc \in {"reset", "probe", "camera", "window"}

\* camera_models_overrides.json has been written by the current (or last) run.
CameraWritten ==
    \/ pc \in {"window", "config", "extract", "count"}
    \/ pc = "idle" /\ outcome \in {"ok", "ExtractionError", "ProbeParseError"}

\* The time window has been resolved by the current (or last) run.
WindowResolved ==
    \/ pc \in {"config", "extract", "count"}
    \/ pc = "idle" /\ outcome \in {"ok", "ExtractionError"}

\* The caller's fractions already lie in [0,1], start below end.
ValidFractions == 0 <= args.start /\ args.start < args.end /\ args.end <= One

\* A read of a probe field that convert_video makes and that fails.
ReadFails(v, o) ==
    \/ v.streams = 0
    \/ o /\ (v.width.k = "missing" \/ v.height.k = "missing")
    \/ ~Parses(v.start_time)
    \/ ~Parses(v.duration)

\* C1: after the clamping, start and end are the caller's fractions clamped into
\* [0,1]: 0 below 0, 1 above 1, the value itself inside.
C1_BothFractionsClamped ==
    FractionsClamped => start = Clamp01(args.start) /\ end = Clamp01(args.end)

\* C2: a run whose fractions, clamped into [0,1], have start >= end fails with
\* InvalidWindow and reaches neither the probe nor the extraction.
C2_InvalidWindowRejected ==
    (outcome # "none" /\ Clamp01(args.start) >= Clamp01(args.end))
        => outcome = "InvalidWindow" /\ ~probed /\ ~extractCall.started

\* C3: the width and height written to camera_models_overrides.json are the scale
\* target passed to the extraction of the same run.
C3_DimensionConsistency ==
    extractCall.started
        => dir.camera.width = extractCall.width /\ dir.camera.height = extractCall.height

\* C4: for fractions 0 <= s < e <= 1 and duration D, the extraction is handed a
\* start of s*D past the stream start offset (as a position counted from the
\* offset, or as the timestamp offset + s*D) and a clip duration of (e-s)*D.
C4_WindowFromFractions ==
    (extractCall.started /\ ValidFractions)
        => /\ extractCall.ss * FracDen \in
                { 1000 * args.start * probe.duration.v,
                  1000 * (probe.start_time.v * FracDen + args.start * probe.duration.v) }
           /\ extractCall.t * FracDen = 1000 * (args.end - args.start) * probe.duration.v

\* C5: with override_video_dimensions false the camera model written is 1920x960,
\* the scale target is 1920x960, and the shared template is unaltered.
C5_DefaultDimensions ==
    (CameraWritten /\ ~args.override_video_dimensions)
        => /\ dir.camera = CameraFile(CameraTemplate)
           /\ width = Num(DefaultWidth) /\ height = Num(DefaultHeight)
           /\ CAMERA_MODEL_JSON = CameraTemplate

\* C6: when the extraction has been started, the directory reset has completed
\* (nothing older is left) and both metadata files are in the dataset directory,
\* also when the extraction fails.
C6_MetadataBeforeExtraction ==
    extractCall.started
        => /\ dir.exists /\ dir.images
           /\ ~dir.extra /\ dir.otherPng = 0 /\ dir.frames = extractCall.written
           /\ dir.camera.present
           /\ dir.config = CONFIG_YAML

C6_Witness ==
    /\ outcome = "ExtractionError"
    /\ extractCall.started
    /\ dir.camera.present /\ dir.config.present

\* C7 as stated: for 0 <= s < e <= 1, D >= 0 and any stream start offset,
\* 0 <= start and start + t <= start offset + D.
C7_WindowInsideStream ==
    (WindowResolved /\ ValidFractions /\ probe.duration.v >= 0)
        => /\ 0 <= start
           /\ start + t <= (probe.start_time.v + probe.duration.v) * FracDen

\* C7 amended: for 0 <= s < e <= 1, D >= 0 and a stream start offset >= 0,
\* 0 <= start and start + t <= start offset + D.
C7_WindowInsideStreamFromZero ==
    (WindowResolved /\ ValidFractions /\ probe.duration.v >= 0 /\ probe.start_time.v >= 0)
        => /\ 0 <= start
           /\ start + t <= (probe.start_time.v + probe.duration.v) * FracDen

C7_Witness ==
    /\ WindowResolved /\ ValidFractions
    /\ args.start > 0 /\ args.end = One
    /\ probe.start_time.v > 0 /\ probe.duration.v > 0
    /\ t > 0

\* C8: a failed read of a probe field ends the run with ProbeParseError, never
\* with another error, and the extraction is not started.
C8_ProbeFailuresWrapped ==
    (/\ pc = "idle" /\ probed /\ args.video.readable
     /\ ReadFails(args.video, args.override_video_dimensions))
        => outcome = "ProbeParseError" /\ ~extractCall.started

\* C9: a run with the arguments of the run before it, on the same video, reports
\* the same frame count and leaves the same camera_models_overrides.json and
\* config.yaml; nothing older than the run is counted or kept.
C9_Idempotent ==
    (pc = "idle" /\ outcome = "ok")
        => /\ prev.valid
                => /\ num_frames = prev.num_frames
                   /\ dir.camera = prev.camera
                   /\ dir.config = prev.config
           /\ num_frames = extractCall.written
           /\ ~dir.extra /\ dir.otherPng = 0

\* C10: a run rejected by the start < end assertion leaves the dataset directory
\* as it was and invokes neither the probe nor the extraction.
C10_RejectionHasNoEffect ==
    [][(pc = "idle" /\ outcome' = "InvalidWindow")
          => (dir' = dir /\ ~probed' /\ ~extractCall'.started)]_vars

C10_Witness ==
    /\ pc = "idle" /\ outcome = "InvalidWindow"
    /\ dir.exists /\ dir.frames > 0 /\ dir.camera.present
    /\ ~probed

====
